---- MODULE Spec2Model ----
(***************************************************************************)
(* A model of RecursiveDirectoryDownloader (src/dump.py): the listing      *)
(* parser, the path mapper, the recursive crawler, the worker pool that    *)
(* drains file_queue, and the orchestration of start_download.             *)
(*                                                                         *)
(* Strings are sequences of one-character strings, so that strip, replace, *)
(* split and join are computed the way the Python code computes them.      *)
(* A URL is modelled by what follows scheme and host: its path, and a      *)
(* query after "?".  Every link of the modelled sites stays on the host.   *)
(***************************************************************************)
EXTENDS Integers, Sequences, FiniteSets, TLC

(***************************************************************************)
(* Bounds of the model.                                                    *)
(***************************************************************************)
\* the largest max_threads a run is started with
MaxThreads == 2
\* the longest URL path get_local_path is applied to in SpecPath
MaxPathLen == 5
\* the longest listing page parse_directory_listing is applied to in SpecParse
MaxLinks == 2

VARIABLES
    site,              \* the server: directory URL -> its listing page (a sequence of links)
    listingResp,       \* the server's answer to a listing fetch, fixed by the first fetch
    fileResp,          \* the server's answer to a file fetch, fixed by the first fetch
    fs,                \* the local disk: path -> "dir", "empty" (a file of size 0) or "data"
    max_threads,       \* self.max_threads
    downloaded_files,  \* self.downloaded_files
    failed_downloads,  \* self.failed_downloads
    scanned_dirs,      \* self.scanned_dirs
    file_queue,        \* self.file_queue: the items not yet taken by a worker
    unfinished_tasks,  \* Queue's count of items put and not yet task_done
    mainpc,            \* where the main thread is in start_download
    stack,             \* the call stack of crawl_directory, innermost frame last
    workers,           \* the worker threads: worker -> its position and locals
    sentinelsPut,      \* how many None items start_download has put
    run,               \* 1 in the first run, 2 in a second run on the same disk
    hist,              \* what the run has done so far (fetches, puts, attempts)
    fnArg,             \* SpecPath, SpecParse: the argument of the function applied
    fnRet              \* SpecPath, SpecParse: its result

vars == <<site, listingResp, fileResp, fs, max_threads, downloaded_files,
          failed_downloads, scanned_dirs, file_queue, unfinished_tasks, mainpc,
          stack, workers, sentinelsPut, run, hist, fnArg, fnRet>>

progVars == <<site, listingResp, fileResp, fs, max_threads, downloaded_files,
              failed_downloads, scanned_dirs, file_queue, unfinished_tasks, mainpc,
              stack, workers, sentinelsPut, run, hist>>

(***************************************************************************)
(* Python's str operations, on sequences of characters.                    *)
(***************************************************************************)
StartsWith(s, p) == Len(s) >= Len(p) /\ SubSeq(s, 1, Len(p)) = p

EndsWith(s, p) == Len(s) >= Len(p) /\ SubSeq(s, Len(s) - Len(p) + 1, Len(s)) = p

\* p in s
Contains(s, p) == \E i \in 1..(Len(s) - Len(p) + 1) : SubSeq(s, i, i + Len(p) - 1) = p

\* s.lstrip(c) for a set of characters c
LStrip(s, c) ==
    LET n == Cardinality({i \in 1..Len(s) : \A j \in 1..i : s[j] \in c})
    IN  SubSeq(s, n + 1, Len(s))

\* s.rstrip(c) for a set of characters c
RStrip(s, c) ==
    LET n == Cardinality({i \in 1..Len(s) : \A j \in i..Len(s) : s[j] \in c})
    IN  SubSeq(s, 1, Len(s) - n)

\* s.strip(): whitespace off both ends
Strip(s) == RStrip(LStrip(s, {" "}), {" "})

\* s.replace(old, ""): the occurrences of old, found left to right without
\* overlap, are removed in one pass; what a removal brings together is not
\* rescanned.  rest[i] is the result for s[i:].
Remove(s, old) ==
    LET n == Len(s)
        m == Len(old)
        rest[k \in 0..n] ==
            LET i == n + 1 - k
            IN  IF k = 0 THEN <<>>
                ELSE IF k >= m /\ SubSeq(s, i, i + m - 1) = old THEN rest[k - m]
                ELSE <<s[i]>> \o rest[k - 1]
    IN  rest[n]

\* the position of the k-th of the separators at, with the two ends of s as the
\* separators 0 and Cardinality(at) + 1
Cut(s, at, k) ==
    IF k = 0 THEN 0
    ELSE IF k = Cardinality(at) + 1 THEN Len(s) + 1
    ELSE CHOOSE i \in at : Cardinality({j \in at : j < i}) = k - 1

\* the segments of s between the separators at
SplitAt(s, at) ==
    [k \in 1..(Cardinality(at) + 1) |-> SubSeq(s, Cut(s, at, k - 1) + 1, Cut(s, at, k) - 1)]

\* s.split(c): the segments between the occurrences of the character c
Split(s, c) == SplitAt(s, {i \in 1..Len(s) : s[i] = c})

\* "/".join(segs)
JoinSlash(segs) ==
    LET joined[k \in 0..Len(segs)] ==
            IF k = 0 THEN <<>>
            ELSE IF k = 1 THEN segs[1]
            ELSE joined[k - 1] \o <<"/">> \o segs[k]
    IN  joined[Len(segs)]

\* filter(None, segs): the non-empty segments
IsNonEmpty(seg) == seg # <<>>

NonEmpty(segs) == SelectSeq(segs, IsNonEmpty)

(***************************************************************************)
(* urllib.parse, as the code uses it.                                      *)
(***************************************************************************)
\* urlparse(url).path: what precedes the query
UrlPath(url) ==
    IF \A i \in 1..Len(url) : url[i] # "?" THEN url
    ELSE LET i == CHOOSE j \in 1..Len(url) : url[j] = "?" /\ \A k \in 1..(j - 1) : url[k] # "?"
         IN  SubSeq(url, 1, i - 1)

\* "?" and urlparse(url).query as urlunparse writes them: nothing for an empty query
UrlQuery(url) ==
    IF Len(url) <= Len(UrlPath(url)) + 1 THEN <<>>
    ELSE SubSeq(url, Len(UrlPath(url)) + 1, Len(url))

\* the loop of urljoin that resolves "." and ".." segments
ResolveDots(segments) ==
    LET resolved_path[k \in 0..Len(segments)] ==
            IF k = 0 THEN <<>>
            ELSE IF segments[k] = <<".", ".">>
                 THEN SubSeq(resolved_path[k - 1], 1, Len(resolved_path[k - 1]) - 1)
            ELSE IF segments[k] = <<".">> THEN resolved_path[k - 1]
            ELSE Append(resolved_path[k - 1], segments[k])
    IN  resolved_path[Len(segments)]

\* the segments of the base without its last one, the file name, when it has one
DropFilename(bsplit) ==
    IF bsplit[Len(bsplit)] # <<>> THEN SubSeq(bsplit, 1, Len(bsplit) - 1) ELSE bsplit

\* the empty segments between the first and the last are filtered out
FilterMiddle(joined) ==
    IF Len(joined) <= 2 THEN joined
    ELSE <<joined[1]>> \o NonEmpty(SubSeq(joined, 2, Len(joined) - 1))
                      \o <<joined[Len(joined)]>>

\* the segments urljoin resolves: those of an absolute path, or those of the
\* base's directory followed by those of a relative path
Segments(base, path) ==
    IF Head(path) = "/" THEN Split(path, "/")
    ELSE FilterMiddle(DropFilename(Split(base, "/")) \o Split(path, "/"))

\* a path that ends in "." or ".." keeps a trailing "/"
TrailingSlash(segments, resolved) ==
    IF segments[Len(segments)] \in {<<".">>, <<".", ".">>}
    THEN Append(resolved, <<>>) ELSE resolved

\* urlunparse puts "/" before a path that does not start with it
Rooted(path) == IF path = <<>> \/ Head(path) # "/" THEN <<"/">> \o path ELSE path

ResolvedPath(segments) ==
    Rooted(JoinSlash(TrailingSlash(segments, ResolveDots(segments))))

\* urljoin(base, href) for a base that is a path and an href without scheme or host
urljoin(base, href) ==
    IF href = <<>> THEN base
    ELSE IF UrlPath(href) = <<>> THEN base \o UrlQuery(href)
    ELSE ResolvedPath(Segments(base, UrlPath(href))) \o UrlQuery(href)

(***************************************************************************)
(* get_local_path (src/dump.py 127-139).                                   *)
(***************************************************************************)
\* self.output_dir
output_dir == <<"o">>

\* os.path.join(a, b)
os_path_join(a, b) ==
    IF StartsWith(b, <<"/">>) THEN b
    ELSE IF a = <<>> \/ EndsWith(a, <<"/">>) THEN a \o b
    ELSE a \o <<"/">> \o b

\* lines 133-134: path[:-1] when the path ends in "/"
DropFinalSlash(path) ==
    IF EndsWith(path, <<"/">>) THEN SubSeq(path, 1, Len(path) - 1) ELSE path

\* the sanitised relative path: lines 129-137
SanitisedPath(url) ==
    Remove(Remove(DropFinalSlash(LStrip(UrlPath(url), {"/"})), <<".", ".", "/">>),
           <<".", "/">>)

get_local_path(url) == os_path_join(output_dir, SanitisedPath(url))

(***************************************************************************)
(* parse_directory_listing (src/dump.py 33-54).  A page is the sequence of *)
(* its <a> elements, each with its href attribute ("" when it has none)    *)
(* and its visible text.                                                   *)
(***************************************************************************)
ParentDirectory ==
    <<"P", "a", "r", "e", "n", "t", " ", "D", "i", "r", "e", "c", "t", "o", "r", "y">>

\* line 43: the links the loop skips
SkipLink(link) ==
    LET href == Strip(link.href)
    IN  \/ href \in {<<>>, <<".", ".", "/">>, <<".", "/">>, <<"/">>}
        \/ StartsWith(href, <<"?">>)
        \/ Contains(link.text, ParentDirectory)

\* line 49: a link whose href ends in "/" is a directory
IsDirectoryHref(href) == EndsWith(href, <<"/">>)

NoItems == [files |-> <<>>, directories |-> <<>>]

\* lines 48-52: the URL is appended to the directories or to the files
AppendItem(items, href, full_url) ==
    IF IsDirectoryHref(href)
    THEN [items EXCEPT !.directories = Append(@, full_url)]
    ELSE [items EXCEPT !.files = Append(@, full_url)]

\* lines 40-52: one turn of the loop
AddLink(items, link, base_url) ==
    IF SkipLink(link) THEN items
    ELSE AppendItem(items, Strip(link.href), urljoin(base_url \o <<"/">>, Strip(link.href)))

\* lines 36-54: the loop over the links, appending to items
parse_directory_listing(html_content, base_url) ==
    LET items[k \in 0..Len(html_content)] ==
            IF k = 0 THEN NoItems
            ELSE AddLink(items[k - 1], html_content[k], base_url)
    IN  items[Len(html_content)]

(***************************************************************************)
(* The sites a run is started on.  A site maps the URL of each directory   *)
(* the server lists to its page.                                           *)
(***************************************************************************)
A(h, t) == [href |-> h, text |-> t]

\* base_url.rstrip('/') of line 16, for the argument "/r/"
base_url == RStrip(<<"/", "r", "/">>, {"/"})

\* a tree whose directories a/ and b/ list each other; b/ lists c/, which the
\* server does not have
SiteTree ==
    (<<"/", "r">> :>
        << A(<<".", ".", "/">>, ParentDirectory), A(<<"?", "C">>, <<"N">>),
           A(<<"a", "/">>, <<"a">>), A(<<"b", "/">>, <<"b">>), A(<<"f">>, <<"f">>) >>)
    @@ (<<"/", "r", "/", "a", "/">> :>
        << A(<<"/", "r", "/", "b", "/">>, <<"b">>), A(<<"g">>, <<"g">>) >>)
    @@ (<<"/", "r", "/", "b", "/">> :>
        << A(<<"/", "r", "/", "a", "/">>, <<"a">>), A(<<"c", "/">>, <<"c">>) >>)

\* one directory that links the file f twice and f?v, which has f's path
SiteDup ==
    (<<"/", "r">> :>
        << A(<<"f">>, <<"f">>), A(<<"f", "?", "v">>, <<"v">>), A(<<" ", "f">>, <<"f">>) >>)

\* one directory that links itself as "." beside the file f
SiteSelf ==
    (<<"/", "r">> :> << A(<<".">>, <<".">>), A(<<"f">>, <<"f">>) >>)

Sites == {SiteTree, SiteDup, SiteSelf}

\* what the server can answer to a file fetch: a URL whose path ends in "/" names
\* a directory, and the server answers it with the index page
FileKinds(url) ==
    IF EndsWith(UrlPath(url), <<"/">>) THEN {"listing", "neterr"}
    ELSE {"ok", "empty", "http404", "neterr"}

EmptyFn == [x \in {} |-> 0]

Count(f, x) == IF x \in DOMAIN f THEN f[x] ELSE 0

Bump(f, x) == (x :> (Count(f, x) + 1)) @@ f

(***************************************************************************)
(* The state after __init__ (src/dump.py 15-31).                           *)
(***************************************************************************)
Workers == 1..max_threads

IdleWorker == [pc |-> "new", file_url |-> <<>>, local_path |-> <<>>,
               body |-> "none", fh |-> "none", outcome |-> "none", sentinels |-> 0]

NoHist == [enqueued |-> {}, listingFetches |-> EmptyFn, fileFetches |-> EmptyFn,
           firstRun |-> {}, diskAtStart |-> {}, put |-> <<>>, taken |-> <<>>,
           report |-> [calls |-> 0, scanned |-> {}, downloaded |-> {}, failed |-> {}]]

\* fnRet before the function of SpecPath or SpecParse is applied
NotCalled == [done |-> FALSE, value |-> <<>>]

\* the downloader built for site s with max_threads n; line 31 makes output_dir
InitDownloader(s, n) ==
    /\ site = s
    /\ max_threads = n
    /\ listingResp = EmptyFn
    /\ fileResp = EmptyFn
    /\ fs = (output_dir :> "dir")
    /\ downloaded_files = {}
    /\ failed_downloads = {}
    /\ scanned_dirs = {}
    /\ file_queue = <<>>
    /\ unfinished_tasks = 0
    /\ mainpc = "start"
    /\ stack = <<>>
    /\ workers = [w \in 1..n |-> IdleWorker]
    /\ sentinelsPut = 0
    /\ run = 1
    /\ hist = NoHist

Init ==
    /\ \E s \in Sites, n \in 1..MaxThreads : InitDownloader(s, n)
    /\ fnArg = <<>>
    /\ fnRet = NotCalled

(***************************************************************************)
(* crawl_directory (src/dump.py 141-157), one frame per call.              *)
(***************************************************************************)
Frame(url) == [url |-> url, pc |-> "enter", files |-> <<>>, directories |-> <<>>]

Top == stack[Len(stack)]

SetTop(f) == [stack EXCEPT ![Len(stack)] = f]

Pop == SubSeq(stack, 1, Len(stack) - 1)

\* line 143 without the test: no directory counts as scanned
AlreadyScannedNever(url) == FALSE

\* line 143
AlreadyScanned(url) == url \in scanned_dirs

\* lines 143-146: return when the directory was scanned, else mark it
CrawlEnter ==
    /\ mainpc = "crawl" /\ stack # <<>> /\ Top.pc = "enter"
    /\ IF AlreadyScanned(Top.url)
       THEN /\ stack' = Pop
            /\ mainpc' = IF Len(stack) = 1 THEN "join" ELSE mainpc
            /\ UNCHANGED scanned_dirs
       ELSE /\ scanned_dirs' = scanned_dirs \cup {Top.url}
            /\ stack' = SetTop([Top EXCEPT !.pc = "fetch"])
            /\ UNCHANGED mainpc
    /\ UNCHANGED <<site, listingResp, fileResp, fs, max_threads, downloaded_files,
                   failed_downloads, file_queue, unfinished_tasks, workers,
                   sentinelsPut, run, hist, fnArg, fnRet>>

\* what the server can answer to a listing fetch
ListingKinds(url) == IF url \in DOMAIN site THEN {"ok", "error"} ELSE {"error"}

\* parse_directory_listing(response.text, url) of line 63 for every page of every
\* site, evaluated once
ParsedListing ==
    [s \in Sites |-> [d \in DOMAIN s |-> parse_directory_listing(s[d], d)]]

\* lines 56-67 without the try: a page of the directory is parsed although the
\* fetch failed
get_directory_contents_uncaught(url, kind) ==
    IF url \in DOMAIN site THEN ParsedListing[site][url] ELSE NoItems

\* get_directory_contents, lines 56-67: the parsed page, or nothing on any error
get_directory_contents(url, kind) ==
    IF kind = "ok" THEN ParsedListing[site][url] ELSE NoItems

\* line 147
CrawlFetch ==
    /\ mainpc = "crawl" /\ stack # <<>> /\ Top.pc = "fetch"
    /\ \E kind \in ListingKinds(Top.url) :
          /\ Top.url \in DOMAIN listingResp => kind = listingResp[Top.url]
          /\ listingResp' = (Top.url :> kind) @@ listingResp
          /\ LET contents == get_directory_contents(Top.url, kind)
             IN  stack' = SetTop([Top EXCEPT !.pc = "loop",
                                             !.files = contents.files,
                                             !.directories = contents.directories])
    /\ hist' = [hist EXCEPT !.listingFetches = Bump(@, Top.url)]
    /\ UNCHANGED <<site, fileResp, fs, max_threads, downloaded_files, failed_downloads,
                   scanned_dirs, file_queue, unfinished_tasks, mainpc, workers,
                   sentinelsPut, run, fnArg, fnRet>>

\* the file URLs on the pages of the sites
FileURLs ==
    UNION {{ParsedListing[s][d].files[i] : i \in 1..Len(ParsedListing[s][d].files)} :
           <<s, d>> \in {<<s, d>> \in Sites \X UNION {DOMAIN t : t \in Sites} : d \in DOMAIN s}}

\* get_local_path(file_url) of line 151 for every file URL, evaluated once
LocalPathOf == [u \in FileURLs |-> get_local_path(u)]

\* lines 151-152: the work item of a file URL
WorkItem(file_url) == [file_url |-> file_url, local_path |-> LocalPathOf[file_url]]

\* lines 150-152: one turn of the loop over the files
CrawlPut ==
    /\ mainpc = "crawl" /\ stack # <<>> /\ Top.pc = "loop" /\ Top.files # <<>>
    /\ file_queue' = Append(file_queue, WorkItem(Head(Top.files)))
    /\ unfinished_tasks' = unfinished_tasks + 1
    /\ stack' = SetTop([Top EXCEPT !.files = Tail(@)])
    /\ hist' = [hist EXCEPT !.enqueued = @ \cup {WorkItem(Head(Top.files))},
                            !.put = Append(@, WorkItem(Head(Top.files)))]
    /\ UNCHANGED <<site, listingResp, fileResp, fs, max_threads, downloaded_files,
                   failed_downloads, scanned_dirs, mainpc, workers, sentinelsPut, run,
                   fnArg, fnRet>>

\* lines 155-157 without the call of line 157: the subdirectory is only printed
CrawlRecursePrintsOnly ==
    /\ mainpc = "crawl" /\ stack # <<>> /\ stack[Len(stack)].pc = "loop"
    /\ stack[Len(stack)].files = <<>> /\ stack[Len(stack)].directories # <<>>
    /\ stack' = [stack EXCEPT ![Len(stack)].directories = Tail(@)]
    /\ UNCHANGED <<site, listingResp, fileResp, fs, max_threads, downloaded_files,
                   failed_downloads, scanned_dirs, file_queue, unfinished_tasks, mainpc,
                   workers, sentinelsPut, run, hist, fnArg, fnRet>>

\* line 155 reached while files of the directory are still to be put
FilesLoopSkipped == TRUE

\* the loop of lines 150-152 has ended: every file of the directory was put
FilesLoopDone == Top.files = <<>>

\* lines 155-157: one turn of the loop over the subdirectories, the recursive call
CrawlRecurse ==
    /\ mainpc = "crawl" /\ stack # <<>> /\ Top.pc = "loop"
    /\ FilesLoopDone /\ Top.directories # <<>>
    /\ stack' = Append(SetTop([Top EXCEPT !.directories = Tail(@)]),
                       Frame(Head(Top.directories)))
    /\ UNCHANGED <<site, listingResp, fileResp, fs, max_threads, downloaded_files,
                   failed_downloads, scanned_dirs, file_queue, unfinished_tasks, mainpc,
                   workers, sentinelsPut, run, hist, fnArg, fnRet>>

\* the return at the end of crawl_directory; start_download goes on when the
\* outermost call returns
CrawlReturn ==
    /\ mainpc = "crawl" /\ stack # <<>> /\ Top.pc = "loop"
    /\ FilesLoopDone /\ Top.directories = <<>>
    /\ stack' = Pop
    /\ mainpc' = IF Len(stack) = 1 THEN "join" ELSE mainpc
    /\ UNCHANGED <<site, listingResp, fileResp, fs, max_threads, downloaded_files,
                   failed_downloads, scanned_dirs, file_queue, unfinished_tasks,
                   workers, sentinelsPut, run, hist, fnArg, fnRet>>

(***************************************************************************)
(* start_download (src/dump.py 159-181).                                   *)
(***************************************************************************)
\* lines 162-171: the workers are started, they block on the empty queue, and
\* crawl_directory(self.base_url) is called
StartDownload ==
    /\ mainpc = "start"
    /\ workers' = [w \in Workers |-> [workers[w] EXCEPT !.pc = "get"]]
    /\ stack' = <<Frame(base_url)>>
    /\ mainpc' = "crawl"
    /\ UNCHANGED <<site, listingResp, fileResp, fs, max_threads, downloaded_files,
                   failed_downloads, scanned_dirs, file_queue, unfinished_tasks,
                   sentinelsPut, run, hist, fnArg, fnRet>>

\* line 174 left out: start_download does not wait for the queue
JoinReturnsAtOnce == TRUE

\* Queue.join returns when every item put has been marked done
JoinReturns == unfinished_tasks = 0

\* line 174
JoinQueue ==
    /\ mainpc = "join"
    /\ JoinReturns
    /\ mainpc' = "stop"
    /\ UNCHANGED <<site, listingResp, fileResp, fs, max_threads, downloaded_files,
                   failed_downloads, scanned_dirs, file_queue, unfinished_tasks, stack,
                   workers, sentinelsPut, run, hist, fnArg, fnRet>>

\* the sentinel None of lines 119 and 178
None == [sentinel |-> TRUE]

\* line 177: one sentinel per worker thread
SentinelCount == max_threads

\* lines 177-178: one turn of the loop that puts None
PutSentinel ==
    /\ mainpc = "stop"
    /\ sentinelsPut < SentinelCount
    /\ file_queue' = Append(file_queue, None)
    /\ unfinished_tasks' = unfinished_tasks + 1
    /\ sentinelsPut' = sentinelsPut + 1
    /\ mainpc' = IF sentinelsPut + 1 = SentinelCount THEN "join_threads" ELSE mainpc
    /\ UNCHANGED <<site, listingResp, fileResp, fs, max_threads, downloaded_files,
                   failed_downloads, scanned_dirs, stack, workers, run, hist, fnArg,
                   fnRet>>

\* lines 180-181: every thread has ended
JoinThreads ==
    /\ mainpc = "join_threads"
    /\ \A w \in Workers : workers[w].pc = "exited"
    /\ mainpc' = "returned"
    /\ UNCHANGED <<site, listingResp, fileResp, fs, max_threads, downloaded_files,
                   failed_downloads, scanned_dirs, file_queue, unfinished_tasks, stack,
                   workers, sentinelsPut, run, hist, fnArg, fnRet>>

(***************************************************************************)
(* The local disk, as os.path and open see it.                             *)
(***************************************************************************)
\* the file or directory a path names: repeated and trailing slashes do not
\* count, so a slash is kept only before a character that is not a slash
Key(p) ==
    LET keep == {i \in 1..Len(p) : p[i] # "/" \/ (i < Len(p) /\ p[i + 1] # "/")}
    IN  [k \in 1..Cardinality(keep) |->
            p[CHOOSE i \in keep : Cardinality({j \in keep : j < i}) = k - 1]]

\* os.path.exists(p)
os_path_exists(p) == Key(p) \in DOMAIN fs

\* os.path.dirname(p)
os_path_dirname(p) ==
    LET slashes == {i \in 1..Len(p) : p[i] = "/"}
        i       == IF slashes = {} THEN 0 ELSE CHOOSE j \in slashes : \A k \in slashes : k <= j
        head    == SubSeq(p, 1, i)
    IN  IF RStrip(head, {"/"}) = <<>> THEN head ELSE RStrip(head, {"/"})

\* the directories os.makedirs(d) walks: d and the directories above it
DirChain(d) ==
    LET k == Key(d)
    IN  {SubSeq(k, 1, i) : i \in {j \in 1..Len(k) : k[j] # "/" /\ (j = Len(k) \/ k[j + 1] = "/")}}

\* os.makedirs(d, exist_ok=True) raises when d is empty or a file is in the way
MakedirsRaises(d) == d = <<>> \/ \E a \in DirChain(d) : a \in DOMAIN fs /\ fs[a] # "dir"

\* the disk after os.makedirs(d, exist_ok=True)
Makedirs(d) == [a \in DirChain(d) |-> "dir"] @@ fs

\* open(p, 'wb') raises when p names a directory
OpenRaises(p) == EndsWith(p, <<"/">>) \/ (os_path_exists(p) /\ fs[Key(p)] = "dir")

\* os.remove(p) raises when p names no file
RemoveRaises(p) == ~os_path_exists(p) \/ fs[Key(p)] = "dir"

\* line 100: os.path.exists(p) and os.path.getsize(p) > 0
HasContent(p) == os_path_exists(p) /\ fs[Key(p)] # "empty"

Without(f, k) == [x \in DOMAIN f \ {k} |-> f[x]]

(***************************************************************************)
(* worker and download_file (src/dump.py 69-125), one action per access to *)
(* the queue, the tracker sets, the server or the disk.                    *)
(***************************************************************************)
Me(w) == workers[w]

Goto(w, pc) == workers' = [workers EXCEPT ![w].pc = pc]

\* download_file returns: the worker is at line 124
Return(w, outcome) == workers' = [workers EXCEPT ![w].pc = "task_done", ![w].outcome = outcome]

\* line 118 with a get that hands the first item out and leaves it in the queue
QueueAfterPeek == file_queue

\* line 118: Queue.get removes the item it returns
QueueAfterGet == Tail(file_queue)

\* lines 118-123: take an item; None ends the loop, any other item is passed
\* to download_file
Get(w) ==
    /\ Me(w).pc = "get"
    /\ file_queue # <<>>
    /\ file_queue' = QueueAfterGet
    /\ IF Head(file_queue) = None
       THEN /\ workers' = [workers EXCEPT ![w].pc = "exited", ![w].sentinels = @ + 1]
            /\ UNCHANGED hist
       ELSE /\ workers' = [workers EXCEPT ![w].pc = "check_downloaded",
                                          ![w].file_url = Head(file_queue).file_url,
                                          ![w].local_path = Head(file_queue).local_path,
                                          ![w].outcome = "none"]
            /\ hist' = [hist EXCEPT !.taken = Append(@, Head(file_queue))]
    /\ UNCHANGED <<site, listingResp, fileResp, fs, max_threads, downloaded_files,
                   failed_downloads, scanned_dirs, unfinished_tasks, mainpc, stack,
                   sentinelsPut, run, fnArg, fnRet>>

\* line 72
IsDownloaded(file_url) == file_url \in downloaded_files

\* lines 72-73
CheckDownloaded(w) ==
    /\ Me(w).pc = "check_downloaded"
    /\ IF IsDownloaded(Me(w).file_url) THEN Return(w, "skipped") ELSE Goto(w, "makedirs")
    /\ UNCHANGED <<site, listingResp, fileResp, fs, max_threads, downloaded_files,
                   failed_downloads, scanned_dirs, file_queue, unfinished_tasks, mainpc,
                   stack, sentinelsPut, run, hist, fnArg, fnRet>>

\* line 76
MakeDirs(w) ==
    /\ Me(w).pc = "makedirs"
    /\ \E d \in {os_path_dirname(Me(w).local_path)} :
          IF MakedirsRaises(d)
          THEN Goto(w, "except") /\ UNCHANGED fs
          ELSE Goto(w, "check_exists") /\ fs' = Makedirs(d)
    /\ UNCHANGED <<site, listingResp, fileResp, max_threads, downloaded_files,
                   failed_downloads, scanned_dirs, file_queue, unfinished_tasks, mainpc,
                   stack, sentinelsPut, run, hist, fnArg, fnRet>>

\* line 79
CheckExists(w) ==
    /\ Me(w).pc = "check_exists"
    /\ IF os_path_exists(Me(w).local_path) THEN Goto(w, "add_existing") ELSE Goto(w, "fetch")
    /\ UNCHANGED <<site, listingResp, fileResp, fs, max_threads, downloaded_files,
                   failed_downloads, scanned_dirs, file_queue, unfinished_tasks, mainpc,
                   stack, sentinelsPut, run, hist, fnArg, fnRet>>

\* lines 81-82 with the URL also taken out of failed_downloads
AddExistingClearsFailed(w) ==
    /\ workers[w].pc = "add_existing"
    /\ downloaded_files' = downloaded_files \cup {workers[w].file_url}
    /\ failed_downloads' = failed_downloads \ {workers[w].file_url}
    /\ workers' = [workers EXCEPT ![w].pc = "task_done", ![w].outcome = "existing"]
    /\ UNCHANGED <<site, listingResp, fileResp, fs, max_threads, scanned_dirs,
                   file_queue, unfinished_tasks, mainpc, stack, sentinelsPut, run,
                   hist, fnArg, fnRet>>

\* lines 81-82
AddExisting(w) ==
    /\ Me(w).pc = "add_existing"
    /\ downloaded_files' = downloaded_files \cup {Me(w).file_url}
    /\ Return(w, "existing")
    /\ UNCHANGED <<site, listingResp, fileResp, fs, max_threads, failed_downloads,
                   scanned_dirs, file_queue, unfinished_tasks, mainpc, stack,
                   sentinelsPut, run, hist, fnArg, fnRet>>

\* lines 90-92: what download_file does with a listing in disguise
OnListing(w) == Return(w, "listing")

\* lines 85-92: the request, raise_for_status and the check of the content type
Fetch(w) ==
    /\ Me(w).pc = "fetch"
    /\ \E kind \in FileKinds(Me(w).file_url) :
          /\ Me(w).file_url \in DOMAIN fileResp => kind = fileResp[Me(w).file_url]
          /\ fileResp' = (Me(w).file_url :> kind) @@ fileResp
          /\ IF kind \in {"neterr", "http404"} THEN Goto(w, "except")
             ELSE IF kind = "listing" THEN OnListing(w)
             ELSE workers' = [workers EXCEPT ![w].pc = "open", ![w].body = kind]
    /\ hist' = [hist EXCEPT !.fileFetches = Bump(@, Me(w).file_url)]
    /\ UNCHANGED <<site, listingResp, fs, max_threads, downloaded_files,
                   failed_downloads, scanned_dirs, file_queue, unfinished_tasks, mainpc,
                   stack, sentinelsPut, run, fnArg, fnRet>>

\* line 94: open(local_path, 'wb') creates the file or truncates it
OpenFile(w) ==
    /\ Me(w).pc = "open"
    /\ IF OpenRaises(Me(w).local_path)
       THEN Goto(w, "except") /\ UNCHANGED fs
       ELSE /\ fs' = (Key(Me(w).local_path) :> "empty") @@ fs
            /\ workers' = [workers EXCEPT ![w].pc = "write", ![w].fh = "linked"]
    /\ UNCHANGED <<site, listingResp, fileResp, max_threads, downloaded_files,
                   failed_downloads, scanned_dirs, file_queue, unfinished_tasks, mainpc,
                   stack, sentinelsPut, run, hist, fnArg, fnRet>>

\* lines 95-97 and the close: the chunks go to the file opened, which the path
\* still names unless it was removed meanwhile
WriteChunks(w) ==
    /\ Me(w).pc = "write"
    /\ fs' = IF Me(w).body = "ok" /\ Me(w).fh = "linked"
             THEN (Key(Me(w).local_path) :> "data") @@ fs ELSE fs
    /\ workers' = [workers EXCEPT ![w].pc = "verify", ![w].fh = "none"]
    /\ UNCHANGED <<site, listingResp, fileResp, max_threads, downloaded_files,
                   failed_downloads, scanned_dirs, file_queue, unfinished_tasks, mainpc,
                   stack, sentinelsPut, run, hist, fnArg, fnRet>>

\* lines 100 and 105
Verify(w) ==
    /\ Me(w).pc = "verify"
    /\ IF HasContent(Me(w).local_path) THEN Goto(w, "add_downloaded") ELSE Goto(w, "except")
    /\ UNCHANGED <<site, listingResp, fileResp, fs, max_threads, downloaded_files,
                   failed_downloads, scanned_dirs, file_queue, unfinished_tasks, mainpc,
                   stack, sentinelsPut, run, hist, fnArg, fnRet>>

\* lines 101-103 with the worker also writing scanned_dirs
AddDownloadedMarksScanned(w) ==
    /\ workers[w].pc = "add_downloaded"
    /\ downloaded_files' = downloaded_files \cup {workers[w].file_url}
    /\ scanned_dirs' = scanned_dirs \cup {workers[w].file_url}
    /\ workers' = [workers EXCEPT ![w].pc = "task_done", ![w].outcome = "downloaded"]
    /\ UNCHANGED <<site, listingResp, fileResp, fs, max_threads, failed_downloads,
                   file_queue, unfinished_tasks, mainpc, stack, sentinelsPut, run,
                   hist, fnArg, fnRet>>

\* lines 101-103
AddDownloaded(w) ==
    /\ Me(w).pc = "add_downloaded"
    /\ downloaded_files' = downloaded_files \cup {Me(w).file_url}
    /\ Return(w, "downloaded")
    /\ UNCHANGED <<site, listingResp, fileResp, fs, max_threads, failed_downloads,
                   scanned_dirs, file_queue, unfinished_tasks, mainpc, stack,
                   sentinelsPut, run, hist, fnArg, fnRet>>

\* lines 107-109
AddFailed(w) ==
    /\ Me(w).pc = "except"
    /\ failed_downloads' = failed_downloads \cup {Me(w).file_url}
    /\ Goto(w, "check_partial")
    /\ UNCHANGED <<site, listingResp, fileResp, fs, max_threads, downloaded_files,
                   scanned_dirs, file_queue, unfinished_tasks, mainpc, stack,
                   sentinelsPut, run, hist, fnArg, fnRet>>

\* line 111
CheckPartial(w) ==
    /\ Me(w).pc = "check_partial"
    /\ IF os_path_exists(Me(w).local_path) THEN Goto(w, "remove") ELSE Return(w, "failed")
    /\ UNCHANGED <<site, listingResp, fileResp, fs, max_threads, downloaded_files,
                   failed_downloads, scanned_dirs, file_queue, unfinished_tasks, mainpc,
                   stack, sentinelsPut, run, hist, fnArg, fnRet>>

\* lines 112-113: os.remove; an error it raises is raised inside the except
\* block, leaves download_file and worker, and ends the thread
RemovePartial(w) ==
    /\ Me(w).pc = "remove"
    /\ IF RemoveRaises(Me(w).local_path)
       THEN Goto(w, "crashed") /\ UNCHANGED fs
       ELSE /\ fs' = Without(fs, Key(Me(w).local_path))
            /\ workers' = [v \in DOMAIN workers |->
                  IF v = w THEN [workers[v] EXCEPT !.pc = "task_done", !.outcome = "failed"]
                  ELSE IF workers[v].fh = "linked"
                          /\ Key(workers[v].local_path) = Key(Me(w).local_path)
                  THEN [workers[v] EXCEPT !.fh = "unlinked"]
                  ELSE workers[v]]
    /\ UNCHANGED <<site, listingResp, fileResp, max_threads, downloaded_files,
                   failed_downloads, scanned_dirs, file_queue, unfinished_tasks, mainpc,
                   stack, sentinelsPut, run, hist, fnArg, fnRet>>

\* lines 124-125: the delay, then task_done
TaskDone(w) ==
    /\ Me(w).pc = "task_done"
    /\ unfinished_tasks' = unfinished_tasks - 1
    /\ workers' = [workers EXCEPT ![w] = [IdleWorker EXCEPT !.pc = "get"]]
    /\ UNCHANGED <<site, listingResp, fileResp, fs, max_threads, downloaded_files,
                   failed_downloads, scanned_dirs, file_queue, mainpc, stack,
                   sentinelsPut, run, hist, fnArg, fnRet>>

CrawlStep == CrawlEnter \/ CrawlFetch \/ CrawlPut \/ CrawlRecurse \/ CrawlReturn

MainStep == StartDownload \/ CrawlStep \/ JoinQueue \/ PutSentinel \/ JoinThreads

(***************************************************************************)
(* A second run of the program on the same server and the same disk:       *)
(* __init__ (src/dump.py 15-31) builds a downloader with empty sets.       *)
(***************************************************************************)
Rerun ==
    /\ mainpc = "returned" /\ run = 1
    /\ run' = 2
    /\ downloaded_files' = {}
    /\ failed_downloads' = {}
    /\ scanned_dirs' = {}
    /\ file_queue' = <<>>
    /\ unfinished_tasks' = 0
    /\ mainpc' = "start"
    /\ stack' = <<>>
    /\ workers' = [w \in Workers |-> IdleWorker]
    /\ sentinelsPut' = 0
    /\ fs' = Makedirs(output_dir)
    /\ hist' = [NoHist EXCEPT !.firstRun = downloaded_files, !.diskAtStart = DOMAIN fs]
    /\ UNCHANGED <<site, listingResp, fileResp, max_threads, fnArg, fnRet>>

WorkerStep ==
    \/ \E w \in Workers : Get(w)
    \/ \E w \in Workers : CheckDownloaded(w)
    \/ \E w \in Workers : MakeDirs(w)
    \/ \E w \in Workers : CheckExists(w)
    \/ \E w \in Workers : AddExisting(w)
    \/ \E w \in Workers : Fetch(w)
    \/ \E w \in Workers : OpenFile(w)
    \/ \E w \in Workers : WriteChunks(w)
    \/ \E w \in Workers : Verify(w)
    \/ \E w \in Workers : AddDownloaded(w)
    \/ \E w \in Workers : AddFailed(w)
    \/ \E w \in Workers : CheckPartial(w)
    \/ \E w \in Workers : RemovePartial(w)
    \/ \E w \in Workers : TaskDone(w)

Next == MainStep \/ WorkerStep \/ Rerun

Spec == Init /\ [][Next]_vars

\* the main thread up to the return of crawl_directory(self.base_url), which
\* reads nothing a worker writes; the workers wait on the queue
NextCrawl == StartDownload \/ CrawlStep

\* the main thread is scheduled, and each fetch of a listing ends, by its answer
\* or by its timeout: a step of the crawl that can be taken is taken
SpecCrawl == Init /\ [][NextCrawl]_vars /\ WF_vars(NextCrawl)

(***************************************************************************)
(* One call of start_download with its worker threads, every thread        *)
(* scheduled: a thread that can take a step takes one.  Each request has a *)
(* timeout, so a fetch ends.                                               *)
(***************************************************************************)
\* a step of the worker thread w: lines 115-125 and download_file
Work(w) ==
    \/ Get(w) \/ CheckDownloaded(w) \/ MakeDirs(w) \/ CheckExists(w) \/ AddExisting(w)
    \/ Fetch(w) \/ OpenFile(w) \/ WriteChunks(w) \/ Verify(w) \/ AddDownloaded(w)
    \/ AddFailed(w) \/ CheckPartial(w) \/ RemovePartial(w) \/ TaskDone(w)

NextRun == MainStep \/ \E w \in Workers : Work(w)

SpecRun ==
    /\ Init /\ [][NextRun]_vars
    /\ WF_vars(MainStep)
    /\ \A w \in 1..MaxThreads : WF_vars(w \in Workers /\ Work(w))

(***************************************************************************)
(* main (src/dump.py 212-255): start_download and generate_report inside   *)
(* try, and the two except blocks.  The worker threads are daemons: they   *)
(* run on while main is in an except block and end with the process.       *)
(***************************************************************************)
\* generate_report, lines 183-210: the three sets are read and written out
GenerateReport ==
    hist' = [hist EXCEPT !.report = [calls      |-> @.calls + 1,
                                     scanned    |-> scanned_dirs,
                                     downloaded |-> downloaded_files,
                                     failed     |-> failed_downloads]]

\* an except block that only prints
OnInterruptSilent == UNCHANGED hist

\* lines 250-252: the block of except KeyboardInterrupt
OnInterrupt == GenerateReport

\* lines 253-255: the block of except Exception
OnError == GenerateReport

\* the main thread is inside the try block of lines 234-248
InTry == mainpc \in {"start", "crawl", "join", "stop", "join_threads", "returned", "reported"}

\* the user interrupts: KeyboardInterrupt is raised in the main thread, wherever
\* it is inside try, and unwinds it to line 250
Interrupt ==
    /\ InTry
    /\ mainpc' = "on_interrupt"
    /\ stack' = <<>>
    /\ UNCHANGED <<site, listingResp, fileResp, fs, max_threads, downloaded_files,
                   failed_downloads, scanned_dirs, file_queue, unfinished_tasks,
                   workers, sentinelsPut, run, hist, fnArg, fnRet>>

\* an exception raised inside start_download by the main thread itself
\* (Thread.start of line 166, a print of the crawl) unwinds it to line 253
Raise ==
    /\ mainpc \in {"start", "crawl"}
    /\ mainpc' = "on_error"
    /\ stack' = <<>>
    /\ UNCHANGED <<site, listingResp, fileResp, fs, max_threads, downloaded_files,
                   failed_downloads, scanned_dirs, file_queue, unfinished_tasks,
                   workers, sentinelsPut, run, hist, fnArg, fnRet>>

\* line 243: start_download has returned
ReportCompleted ==
    /\ mainpc = "returned"
    /\ GenerateReport
    /\ mainpc' = "reported"
    /\ UNCHANGED <<site, listingResp, fileResp, fs, max_threads, downloaded_files,
                   failed_downloads, scanned_dirs, file_queue, unfinished_tasks, stack,
                   workers, sentinelsPut, run, fnArg, fnRet>>

\* lines 245-248: the summary is printed, main returns and the process ends
ExitCompleted ==
    /\ mainpc = "reported"
    /\ mainpc' = "terminated"
    /\ UNCHANGED <<site, listingResp, fileResp, fs, max_threads, downloaded_files,
                   failed_downloads, scanned_dirs, file_queue, unfinished_tasks, stack,
                   workers, sentinelsPut, run, hist, fnArg, fnRet>>

\* lines 250-252, then main returns and the process ends
ExitInterrupted ==
    /\ mainpc = "on_interrupt"
    /\ OnInterrupt
    /\ mainpc' = "terminated"
    /\ UNCHANGED <<site, listingResp, fileResp, fs, max_threads, downloaded_files,
                   failed_downloads, scanned_dirs, file_queue, unfinished_tasks, stack,
                   workers, sentinelsPut, run, fnArg, fnRet>>

\* lines 253-255, then main returns and the process ends
ExitFailed ==
    /\ mainpc = "on_error"
    /\ OnError
    /\ mainpc' = "terminated"
    /\ UNCHANGED <<site, listingResp, fileResp, fs, max_threads, downloaded_files,
                   failed_downloads, scanned_dirs, file_queue, unfinished_tasks, stack,
                   workers, sentinelsPut, run, fnArg, fnRet>>

\* the threads of the process run until it ends
Running == mainpc # "terminated"

NextMain ==
    \/ Running /\ MainStep
    \/ Running /\ WorkerStep
    \/ Interrupt
    \/ Raise
    \/ ReportCompleted
    \/ ExitCompleted
    \/ ExitInterrupted
    \/ ExitFailed

\* one run of the program, from the construction of the downloader to the end
\* of the process
SpecMain == Init /\ [][NextMain]_vars

(***************************************************************************)
(* get_local_path applied to every URL path up to MaxPathLen characters.   *)
(***************************************************************************)
PathAlphabet == {".", "/", "a"}

Strings(alphabet, n) == UNION {[1..k -> alphabet] : k \in 0..n}

InitPath ==
    /\ InitDownloader(SiteTree, 1)
    /\ fnArg \in Strings(PathAlphabet, MaxPathLen)
    /\ fnRet = NotCalled

MapPath ==
    /\ ~fnRet.done
    /\ fnRet' = [done |-> TRUE, value |-> get_local_path(fnArg)]
    /\ UNCHANGED <<progVars, fnArg>>

NextPath == MapPath

SpecPath == InitPath /\ [][NextPath]_vars

(***************************************************************************)
(* parse_directory_listing applied to every page of up to MaxLinks links   *)
(* drawn from LinkPool, for the directory base_url.                        *)
(***************************************************************************)
HrefPool ==
    { <<>>, <<".">>, <<".", "/">>, <<"/">>, <<".", ".", "/">>, <<"?", "C">>,
      <<"f">>, <<"a", "/">>, <<" ", "f">>, <<".", ".", "/", "u">> }

TextPool == { <<"x">>, ParentDirectory, <<"[">> \o ParentDirectory \o <<"]">> }

LinkPool == {A(h, t) : h \in HrefPool, t \in TextPool}

InitParse ==
    /\ InitDownloader(SiteTree, 1)
    /\ fnArg \in Strings(LinkPool, MaxLinks)
    /\ fnRet = NotCalled

ParsePage ==
    /\ ~fnRet.done
    /\ fnRet' = [done |-> TRUE, value |-> parse_directory_listing(fnArg, base_url)]
    /\ UNCHANGED <<progVars, fnArg>>

NextParse == ParsePage

SpecParse == InitParse /\ [][NextParse]_vars

(***************************************************************************)
(* The claims.                                                             *)
(***************************************************************************)
\* crawl_directory(self.base_url) has returned to start_download
CrawlReturned == mainpc \in {"join", "stop", "join_threads", "returned"}

\* file_queue.join() has returned
QueueDrained == mainpc \in {"stop", "join_threads", "returned"}

\* C1: once file_queue.join() has returned, the file URL of every WorkItem the
\* crawler enqueued is in exactly one of downloaded_files and failed_downloads.
EveryItemSettled ==
    QueueDrained =>
        \A item \in hist.enqueued :
            (item.file_url \in downloaded_files) # (item.file_url \in failed_downloads)

\* every listing fetched was fetched once, of a directory already in scanned_dirs,
\* and when the crawl has returned every scanned directory was fetched
ListingFetchedOnce ==
    /\ \A d \in DOMAIN hist.listingFetches :
          hist.listingFetches[d] = 1 /\ d \in scanned_dirs
    /\ CrawlReturned => \A d \in scanned_dirs : Count(hist.listingFetches, d) = 1

\* C2: on sites whose directories list each other, crawl_directory(root)
\* terminates, and each directory URL is in scanned_dirs before its listing is
\* fetched and has its listing fetched exactly once.
CycleSafe == []ListingFetchedOnce /\ ((mainpc = "crawl") ~> (mainpc = "join"))

dirA == <<"/", "r", "/", "a", "/">>

dirB == <<"/", "r", "/", "b", "/">>

\* the crawl has returned from a site where a/ and b/ were both listed, each
\* linking the other
CycleCrawled ==
    /\ mainpc = "join"
    /\ site = SiteTree
    /\ {dirA, dirB} \subseteq DOMAIN listingResp
    /\ listingResp[dirA] = "ok" /\ listingResp[dirB] = "ok"
    /\ hist.listingFetches[dirA] = 1 /\ hist.listingFetches[dirB] = 1

\* the directories a successfully fetched listing of d links
ListedDirs(d) ==
    IF d \in DOMAIN listingResp /\ listingResp[d] = "ok"
    THEN {ParsedListing[site][d].directories[i] :
             i \in 1..Len(ParsedListing[site][d].directories)}
    ELSE {}

\* the files a successfully fetched listing of d links
ListedFiles(d) ==
    IF d \in DOMAIN listingResp /\ listingResp[d] = "ok"
    THEN {ParsedListing[site][d].files[i] : i \in 1..Len(ParsedListing[site][d].files)}
    ELSE {}

RECURSIVE ReachFrom(_)
ReachFrom(S) ==
    LET T == S \cup UNION {ListedDirs(d) : d \in S}
    IN  IF T = S THEN S ELSE ReachFrom(T)

\* the directories reachable from the root through successfully fetched listings
ReachableDirs == ReachFrom({base_url})

\* C3: when crawl_directory(root) has returned, every directory reachable from
\* the root through successfully fetched listings is in scanned_dirs and every
\* file on those listings has been put on the queue as (file URL, local path).
CrawlComplete ==
    CrawlReturned =>
        /\ ReachableDirs \subseteq scanned_dirs
        /\ \A d \in ReachableDirs : \A f \in ListedFiles(d) :
              [file_url |-> f, local_path |-> get_local_path(f)] \in hist.enqueued

\* the crawl of the whole tree has returned with both files queued and no
\* download begun
CrawlReturnedBeforeDownloads ==
    /\ mainpc = "join"
    /\ site = SiteTree
    /\ ReachableDirs = {base_url, dirA, dirB, dirB \o <<"c", "/">>}
    /\ Len(file_queue) = 2
    /\ unfinished_tasks = 2
    /\ downloaded_files = {} /\ failed_downloads = {}
    /\ \A w \in Workers : workers[w].pc = "get"

\* the sentinels in a sequence of queue items
SentinelsIn(q) == Cardinality({i \in 1..Len(q) : q[i] = None})

SentinelState ==
    /\ sentinelsPut <= max_threads
    /\ mainpc \in {"join_threads", "returned"} => sentinelsPut = max_threads
    /\ \A w \in Workers : workers[w].sentinels = IF workers[w].pc = "exited" THEN 1 ELSE 0
    /\ SentinelsIn(file_queue) + Cardinality({w \in Workers : workers[w].sentinels = 1})
          = sentinelsPut
    /\ sentinelsPut > 0 =>
          /\ CrawlReturned /\ stack = <<>>
          /\ \A i \in 1..Len(file_queue) : file_queue[i] = None
          /\ \A w \in Workers : workers[w].pc \in {"get", "exited"}
          /\ unfinished_tasks = sentinelsPut
    /\ mainpc = "returned" =>
          file_queue = <<>> /\ \A w \in Workers : workers[w].sentinels = 1

SentinelStep ==
    (sentinelsPut > 0 /\ run' = run) =>
        /\ hist'.enqueued = hist.enqueued
        /\ \A i \in 1..Len(file_queue') : file_queue'[i] = None

\* C4: exactly max_threads sentinels are put, only after the crawl has returned
\* and every WorkItem has been processed; no WorkItem is put after the first
\* sentinel, no worker takes a sentinel while a WorkItem is unprocessed, and each
\* worker takes exactly one sentinel.
SentinelShutdown == []SentinelState /\ [][SentinelStep]_vars

\* a run of two workers that queued files has returned from start_download
ShutdownComplete ==
    /\ mainpc = "returned"
    /\ max_threads = 2
    /\ hist.enqueued # {}
    /\ sentinelsPut = 2

\* worker w is in the except block of download_file
InHandler(w) == workers[w].pc \in {"except", "check_partial", "remove"}

\* C5: when a download attempt fails, the file URL is added to failed_downloads,
\* no file is at its target path when the attempt ends, and the worker goes on
\* to the next item.
FailedAttemptCleansUp ==
    [][\A w \in Workers :
          (InHandler(w) /\ workers'[w].pc \notin {"except", "check_partial", "remove"}) =>
              /\ workers'[w].pc = "task_done"
              /\ workers[w].file_url \in failed_downloads'
              /\ Key(workers[w].local_path) \notin DOMAIN fs']_vars

\* C6: when the response is an HTML listing in disguise, download_file writes
\* nothing, records the file URL in failed_downloads and not in
\* downloaded_files, and neither crawls it nor puts it on the queue.
ListingRecordedFailed ==
    [][\A w \in Workers :
          (workers[w].pc = "fetch" /\ workers'[w].outcome = "listing") =>
              /\ fs' = fs
              /\ workers[w].file_url \in failed_downloads'
              /\ downloaded_files' = downloaded_files
              /\ scanned_dirs' = scanned_dirs /\ stack' = stack
              /\ file_queue' = file_queue]_vars

\* C7: a second run against the same server and the same output directory ends
\* with the downloaded_files of the first run, and fetches no file whose target
\* path was on disk when it started.
RerunIdempotent ==
    (run = 2 /\ mainpc = "returned") =>
        /\ downloaded_files = hist.firstRun
        /\ \A u \in DOMAIN hist.fileFetches : Key(get_local_path(u)) \notin hist.diskAtStart

\* C8: get_local_path returns output_dir joined with a relative path that is
\* not absolute and has no ".." segment.
PathConfined ==
    fnRet.done =>
        LET root == output_dir \o <<"/">>
            rel  == SubSeq(fnRet.value, Len(root) + 1, Len(fnRet.value))
        IN  /\ StartsWith(fnRet.value, root)
            /\ ~StartsWith(rel, <<"/">>)
            /\ \A i \in 1..Len(Split(rel, "/")) : Split(rel, "/")[i] # <<".", ".">>

\* the links the claim C9 says are discarded
ClaimDiscards(link) ==
    \/ Strip(link.href) \in {<<>>, <<".">>, <<".", "/">>, <<"/">>, <<".", ".", "/">>}
    \/ StartsWith(Strip(link.href), <<"?">>)
    \/ Contains(link.text, ParentDirectory)

Range(q) == {q[i] : i \in 1..Len(q)}

\* C9: parse_directory_listing returns no URL for a link whose href is empty,
\* ".", "./", "/", "../", starts with "?", or whose text contains "Parent
\* Directory", and exactly one resolved URL for every other link.
ParserDiscards ==
    fnRet.done =>
        LET kept == {i \in 1..Len(fnArg) : ~ClaimDiscards(fnArg[i])}
        IN  /\ Len(fnRet.value.files) + Len(fnRet.value.directories) = Cardinality(kept)
            /\ Range(fnRet.value.files) \cup Range(fnRet.value.directories)
                  = {urljoin(base_url \o <<"/">>, Strip(fnArg[i].href)) : i \in kept}

\* C10: in every state of a run no URL is in both downloaded_files and
\* failed_downloads.
TrackerDisjoint == downloaded_files \cap failed_downloads = {}

\* C11: during a run at most one HTTP fetch is issued for every file URL, under
\* any interleaving of the workers and however often the URL is enqueued.
NoDuplicateFetch == \A u \in DOMAIN hist.fileFetches : hist.fileFetches[u] <= 1

IsWorkItem(item) == item # None

\* the workers that are inside download_file, or were when their thread ended
InDownloadFile == {w \in Workers : workers[w].pc \notin {"new", "get", "exited"}}

\* C12: the WorkItems the crawler put are handed out in the order put, each to
\* one worker and once: an item is either still in the queue or was taken once,
\* every item taken is in download_file or has been marked done, and when
\* start_download is past file_queue.join() every item put was taken and done.
ConsumedOnce ==
    /\ hist.taken \o SelectSeq(file_queue, IsWorkItem) = hist.put
    /\ Len(hist.taken) =
          Cardinality(InDownloadFile) + Len(hist.put) - (unfinished_tasks - sentinelsPut)
    /\ QueueDrained => hist.taken = hist.put /\ InDownloadFile = {}

\* a run of two workers is past the join after three items were put, two of
\* them the same item
ThreeItemsConsumed ==
    /\ mainpc = "returned"
    /\ max_threads = 2
    /\ Len(hist.put) = 3
    /\ Cardinality(hist.enqueued) = 2

\* C13: on every path out of main (start_download returned, an exception was
\* raised inside it, the user interrupted the crawl or the join) generate_report
\* was called before the process ended, and it read the tracker as it was at
\* that moment: what it wrote is in the sets, and is the sets when no worker
\* thread was left running.
ReportOnExit ==
    mainpc = "terminated" =>
        /\ hist.report.calls >= 1
        /\ hist.report.scanned = scanned_dirs
        /\ hist.report.downloaded \subseteq downloaded_files
        /\ hist.report.failed \subseteq failed_downloads
        /\ (\A w \in Workers : workers[w].pc \in {"new", "get", "exited"}) =>
              /\ hist.report.downloaded = downloaded_files
              /\ hist.report.failed = failed_downloads

\* the user interrupted file_queue.join() while a worker was inside
\* download_file, and the process has ended
InterruptedDuringJoin ==
    /\ mainpc = "terminated"
    /\ unfinished_tasks > 0
    /\ scanned_dirs # {}
    /\ \E w \in Workers : workers[w].pc = "fetch"
    /\ hist.report.calls = 1

\* start_download has returned with the queue empty, every item put taken and
\* done, and every worker thread out of its loop
ReturnedClean ==
    /\ file_queue = <<>>
    /\ hist.taken = hist.put
    /\ InDownloadFile = {}
    /\ \A w \in Workers : workers[w].pc = "exited"

\* C14: with every thread scheduled fairly, start_download eventually returns,
\* and when it returns the queue is empty, every WorkItem put was processed and
\* all max_threads workers have left their loop.
RunTerminates == <>(mainpc = "returned") /\ [](mainpc = "returned" => ReturnedClean)

\* this step is line 146 for the directory of the innermost call
MarksVisited ==
    /\ stack # <<>> /\ Top.pc = "enter"
    /\ Len(stack') = Len(stack) /\ stack'[Len(stack')].pc = "fetch"

\* this step puts a WorkItem on the queue
PutsItem == run' = run /\ Len(hist'.put) = Len(hist.put) + 1

\* C15: a WorkItem is put only when a directory whose fetched listing links its
\* file URL is already in scanned_dirs, and a directory is marked visited only
\* when it is not in scanned_dirs and its listing has not been fetched.
CausalOrder ==
    [][/\ PutsItem =>
            \E d \in scanned_dirs \cap DOMAIN hist.listingFetches :
                hist'.put[Len(hist'.put)].file_url \in ListedFiles(d)
       /\ MarksVisited =>
            /\ Top.url \notin scanned_dirs
            /\ Top.url \notin DOMAIN hist.listingFetches
            /\ scanned_dirs' = scanned_dirs \cup {Top.url}]_vars

\* the file g of the subdirectory a/ was put while the crawl was in a/, after
\* the root and a/ were marked
SubdirectoryFilePut ==
    /\ mainpc = "crawl"
    /\ Len(stack) = 2 /\ Top.url = dirA
    /\ {base_url, dirA} \subseteq scanned_dirs
    /\ hist.put # <<>>
    /\ hist.put[Len(hist.put)].file_url = dirA \o <<"g">>

\* every caller on the stack waits in its loop over the subdirectories, all its
\* files put: only the innermost call is at work
CallersWait ==
    \A i \in 1..(Len(stack) - 1) : stack[i].pc = "loop" /\ stack[i].files = <<>>

\* a step of the crawl changes the innermost frame only: it calls for a
\* subdirectory when the files of the directory were all put, or returns, or
\* works on the directory of the innermost call
InnermostOnly ==
    (run' = run /\ stack # <<>> /\ stack' # stack) =>
        /\ Len(stack') \in {Len(stack) - 1, Len(stack), Len(stack) + 1}
        /\ \A i \in 1..(Len(stack) - 1) : i <= Len(stack') => stack'[i] = stack[i]
        /\ Len(stack') = Len(stack) + 1 =>
              /\ Top.pc = "loop" /\ Top.files = <<>>
              /\ stack'[Len(stack)].directories = Tail(Top.directories)
        /\ PutsItem => hist'.put[Len(hist'.put)].file_url = Head(Top.files)
        /\ scanned_dirs' # scanned_dirs => scanned_dirs' = scanned_dirs \cup {Top.url}

\* C16: the crawl is depth-first and in one thread: the files of a directory
\* are all put before a subdirectory of it is visited, the visit of a
\* subdirectory and of everything below it is over before the next one begins,
\* and no two directories are worked on at once.
DepthFirst == []CallersWait /\ [][InnermostOnly]_vars

\* the crawl is four calls deep, in c/ below b/ below a/ below the root, after
\* the root's file f and then a/'s file g were put
FourCallsDeep ==
    /\ mainpc = "crawl"
    /\ Len(stack) = 4
    /\ stack[2].url = dirA /\ stack[3].url = dirB
    /\ stack[1].directories = <<dirB>>
    /\ Len(hist.put) = 2
    /\ hist.put[1].file_url = base_url \o <<"/", "f">>
    /\ hist.put[2].file_url = dirA \o <<"g">>

\* this step is the listing fetch of line 147, and it failed
ListingFetchFails ==
    /\ run' = run /\ stack # <<>> /\ Top.pc = "fetch" /\ stack' # stack
    /\ listingResp'[Top.url] = "error"

\* a directory whose fetch failed has nothing to put and nothing to visit
FailedDirectoryEmpty ==
    \A i \in 1..Len(stack) :
        (stack[i].pc = "loop" /\ listingResp[stack[i].url] = "error") =>
            stack[i].files = <<>> /\ stack[i].directories = <<>>

\* C17: a directory whose listing fetch fails is an empty listing: it stays in
\* scanned_dirs, no WorkItem is put for it and no subdirectory visited, nothing
\* is added to failed_downloads, and the call returns to its caller, which goes
\* on with the next subdirectory.
FailedListingIsEmpty ==
    /\ []FailedDirectoryEmpty
    /\ [][ListingFetchFails =>
            /\ stack' = SetTop([Top EXCEPT !.pc = "loop", !.files = <<>>,
                                           !.directories = <<>>])
            /\ Top.url \in scanned_dirs /\ scanned_dirs' = scanned_dirs
            /\ failed_downloads' = failed_downloads
            /\ file_queue' = file_queue /\ hist'.put = hist.put]_vars

\* the fetch of a/ failed and the crawl went on: the sibling b/ was listed, c/
\* below it visited, and the crawl returned with only the root's file f put
CrawlWentOnAfterFailure ==
    /\ mainpc = "join"
    /\ site = SiteTree
    /\ run = 1
    /\ listingResp[base_url] = "ok" /\ listingResp[dirA] = "error" /\ listingResp[dirB] = "ok"
    /\ scanned_dirs = {base_url, dirA, dirB, dirB \o <<"c", "/">>}
    /\ Len(hist.put) = 1
    /\ failed_downloads = {}

\* C18: in every step of a run scanned_dirs, downloaded_files and
\* failed_downloads only grow: no step of the crawler or of a worker removes a
\* URL from one of them or resets it.
TrackerGrows ==
    [][run' = run =>
          /\ scanned_dirs \subseteq scanned_dirs'
          /\ downloaded_files \subseteq downloaded_files'
          /\ failed_downloads \subseteq failed_downloads']_vars

\* a run has filled all three sets, and a URL recorded as failed was then
\* recorded as downloaded
AllThreeFilled ==
    /\ mainpc = "returned"
    /\ run = 1
    /\ scanned_dirs # {}
    /\ downloaded_files \cap failed_downloads # {}

\* C19: once file_queue.join() has returned, every URL in downloaded_files has a
\* file at the local path of its WorkItem, under any interleaving of the
\* workers, also when two WorkItems have one URL or one local path.
DownloadedOnDisk ==
    QueueDrained =>
        \A item \in hist.enqueued :
            item.file_url \in downloaded_files => os_path_exists(item.local_path)

\* C20: a step of a worker (get, download_file, the delay, task_done) leaves
\* scanned_dirs as it is; a step of the crawler (the visited check, the mark,
\* the listing fetch, a put, a call or a return) leaves downloaded_files and
\* failed_downloads as they are; inside a run scanned_dirs changes only in a
\* step of the crawler, and the other two sets only in a step of a worker.
FrameKept ==
    [][/\ WorkerStep => scanned_dirs' = scanned_dirs
       /\ CrawlStep => downloaded_files' = downloaded_files /\ failed_downloads' = failed_downloads
       /\ (run' = run /\ scanned_dirs' # scanned_dirs) => CrawlStep
       /\ (run' = run /\ (downloaded_files' # downloaded_files
                           \/ failed_downloads' # failed_downloads)) => WorkerStep]_vars

\* the crawler is inside a subdirectory while the workers have already recorded
\* one file as downloaded and are inside download_file for another
CrawlAndDownloadOverlap ==
    /\ mainpc = "crawl"
    /\ Len(stack) >= 2
    /\ Cardinality(scanned_dirs) >= 2
    /\ downloaded_files # {}
    /\ \E w \in Workers : workers[w].pc = "fetch"

====
